---- MODULE Spec2Model ----
(***************************************************************************)
(* Model instantiation and field lifecycle engine of verve: one model      *)
(* instance (schema after test/setup/models/User.ts), its state, change    *)
(* log, initial state, own-property descriptors and the object heap that   *)
(* the state's lists and records live in.                                  *)
(***************************************************************************)
EXTENDS Integers, Sequences, FiniteSets, TLC

\* ------------------------------------------------------------------ bounds
MaxOps == 2
MaxRefs == 3
MaxLen == 3

\* ------------------------------------------------------------------ values
UNDEF == "undefined"
NULL == "null"

RefNames == <<"r1", "r2", "r3", "r4", "r5", "r6">>
CloneNames == <<"k1", "k2", "k3", "k4", "k5", "k6">>
Refs == {RefNames[i] : i \in 1..MaxRefs}
DefRefs == {"dG", "dS"}
CloneRefs == {CloneNames[i] : i \in 1..MaxRefs} \cup {"kG", "kS"}
AllRefs == Refs \cup DefRefs \cup CloneRefs

PropOrder == <<"theme", "a", "b", "x">>
PropKeys == {PropOrder[i] : i \in DOMAIN PropOrder}
NoProps == [p \in PropKeys |-> UNDEF]
FreeCell == [kind |-> "free", items |-> <<>>, props |-> NoProps]

\* ------------------------------------------------------------------ schema
FieldOrder == <<"id", "name", "password", "email", "role", "groups", "settings", "label">>
Fields == {FieldOrder[i] : i \in DOMAIN FieldOrder}

NoValidators == <<>>

Schema ==
  [f \in Fields |->
    CASE f = "id" ->
           [kind |-> "IdField", nullable |-> FALSE, readable |-> "true", writable |-> "isNew",
            default |-> UNDEF, generator |-> "eager", compute |-> FALSE, validators |-> NoValidators]
      [] f = "name" ->
           [kind |-> "TextField", nullable |-> TRUE, readable |-> "admin", writable |-> "true",
            default |-> UNDEF, generator |-> "none", compute |-> FALSE, validators |-> NoValidators]
      [] f = "password" ->
           [kind |-> "TextField", nullable |-> FALSE, readable |-> "false", writable |-> "true",
            default |-> UNDEF, generator |-> "none", compute |-> FALSE,
            validators |-> <<[name |-> "minLength", lazy |-> FALSE]>>]
      [] f = "email" ->
           [kind |-> "TextField", nullable |-> FALSE, readable |-> "true", writable |-> "true",
            default |-> UNDEF, generator |-> "lazy", compute |-> FALSE,
            validators |-> <<[name |-> "hasAt", lazy |-> TRUE]>>]
      [] f = "role" ->
           [kind |-> "OptionField", nullable |-> FALSE, readable |-> "true", writable |-> "admin",
            default |-> "user", generator |-> "none", compute |-> FALSE, validators |-> NoValidators]
      [] f = "groups" ->
           [kind |-> "ListField", nullable |-> FALSE, readable |-> "true", writable |-> "true",
            default |-> "dG", generator |-> "none", compute |-> FALSE, validators |-> NoValidators]
      [] f = "settings" ->
           [kind |-> "RecordField", nullable |-> FALSE, readable |-> "true", writable |-> "true",
            default |-> "dS", generator |-> "none", compute |-> FALSE, validators |-> NoValidators]
      [] OTHER ->
           [kind |-> "TextField", nullable |-> FALSE, readable |-> "true", writable |-> "true",
            default |-> UNDEF, generator |-> "none", compute |-> TRUE, validators |-> NoValidators]]

\* the validator functions of the schema, by name: the values they accept
ValidatorResult(name, value) ==
  CASE name = "minLength" -> value \in {"p123", "p1234"}
    [] name = "hasAt" -> value \in {"a@b", "gen@x"}
    [] OTHER -> TRUE

\* the compute function of "label": derived from the raw id
ComputeLabel(idValue) ==
  CASE idValue = "sid" -> "L-sid"
    [] idValue = "id1" -> "L-id1"
    [] idValue = "id2" -> "L-id2"
    [] OTHER -> "L-none"

Contexts == {"none", "admin"}

\* ------------------------------------------------------------------ state
VARIABLES
  phase,         \* "none" | "live" | "failed"
  initializer,   \* "make" | "from"
  state,         \* field name -> value (UNDEF: no entry)
  changeLog,     \* sequence of [field, previousValue, currentValue]
  initialState,  \* field name -> value of the deep snapshot
  own,           \* field name -> own property descriptor of the instance
  heap,          \* reference -> list / record object
  ctx,           \* ambient context
  adapter,       \* installed context adapter: "global" | "scoped"
  frames,        \* Context.run calls in progress, outermost first
  flows,         \* concurrent logical flows: their async-local store and scheduled tasks
  registry,      \* ErrorRegistry: hiddenCodes and customErrorMessages
  thrown,        \* the VerveErrors created so far
  res,           \* outcome of the last call
  ops            \* number of calls made on the instance

vars == <<phase, initializer, state, changeLog, initialState, own, heap, ctx, adapter, frames, flows, registry, thrown, res, ops>>

NoState == [f \in Fields |-> UNDEF]

\* error codes, and messages as sequences of tokens
ErrorCodes == {"FIELD_NOT_READABLE", "FIELD_NOT_WRITABLE"}
errorMessages == [c \in ErrorCodes |-> <<"Field", "is", "not", IF c = "FIELD_NOT_READABLE" THEN "readable" ELSE "writable">>]
NoRegistry == [hiddenCodes |-> FALSE, customErrorMessages |-> [c \in ErrorCodes |-> <<>>]]

\* two logical flows of an event-driven host, none of them inside Context.run
FlowIds == {"f1", "f2"}
NoFlows == [f \in FlowIds |-> [running |-> FALSE, context |-> "none", store |-> "none", tasks |-> <<>>]]
OwnAbsent == [present |-> FALSE, enumerable |-> FALSE, writable |-> FALSE]
NoOwn == [f \in Fields |-> OwnAbsent]
NoErrs == <<>>
NoData == <<>>

\* the last call: its name, the field and argument it names, the error it
\* threw ("ok": none), the value it returned, the errors an aggregate error
\* carries, its structured argument (data entries, keys, path) and the
\* value the field held before the call
NoRes ==
  [op |-> "none", f |-> UNDEF, arg |-> UNDEF, err |-> "ok", val |-> UNDEF,
   errs |-> NoErrs, data |-> NoData, before |-> UNDEF]

Result(op, f, arg, err, val) ==
  [op |-> op, f |-> f, arg |-> arg, err |-> err, val |-> val,
   errs |-> NoErrs, data |-> NoData, before |-> IF f \in Fields THEN state[f] ELSE UNDEF]

ResultData(op, f, data, err) == [Result(op, f, UNDEF, err, UNDEF) EXCEPT !.data = data]

\* the declared defaults are objects owned by the schema
InitHeap ==
  [r \in AllRefs |->
    CASE r = "dG" -> [kind |-> "list", items |-> <<"g1", "g2">>, props |-> NoProps]
      [] r = "dS" -> [kind |-> "record", items |-> <<>>,
                      props |-> [NoProps EXCEPT !["theme"] = "light"]]
      [] OTHER -> FreeCell]

\* the raw instance as the field methods see it
World(s, l, o, h, ini, c) ==
  [state |-> s, changeLog |-> l, own |-> o, heap |-> h, initializer |-> ini, context |-> c]
Cur == World(state, changeLog, own, heap, initializer, ctx)

Commit(w) ==
  /\ state' = w.state
  /\ changeLog' = w.changeLog
  /\ own' = w.own
  /\ heap' = w.heap

\* ------------------------------------------------------------------ heap
IsRef(v) == v \in AllRefs

FreeRefs(h) == {r \in Refs : h[r].kind = "free"}

NextFree(h) ==
  LET i == CHOOSE j \in 1..MaxRefs :
             /\ h[RefNames[j]].kind = "free"
             /\ \A k \in 1..(j - 1) : h[RefNames[k]].kind # "free"
  IN RefNames[i]

\* object and array literals a caller can pass in
LitNames == {"lit:ab", "lit:abc", "lit:objs", "lit:elem", "lit:rec", "lit:deep", "lit:inner"}

LitKind(l) == IF l \in {"lit:ab", "lit:abc", "lit:objs"} THEN "list" ELSE "record"

LitItems(l) ==
  CASE l = "lit:ab" -> <<"g1", "g2">>
    [] l = "lit:abc" -> <<"g1", "g2", "g3">>
    [] l = "lit:objs" -> <<"lit:elem">>
    [] OTHER -> <<>>

LitProps(l) ==
  CASE l = "lit:elem" -> [NoProps EXCEPT !["x"] = "v1"]
    [] l = "lit:rec" -> [NoProps EXCEPT !["theme"] = "dark"]
    [] l = "lit:deep" -> [NoProps EXCEPT !["theme"] = "light", !["a"] = "lit:inner"]
    [] l = "lit:inner" -> [NoProps EXCEPT !["b"] = "v1"]
    [] OTHER -> NoProps

\* number of objects a literal allocates
LitSize(l) ==
  CASE l \in {"lit:objs", "lit:deep"} -> 2
    [] l \in LitNames -> 1
    [] OTHER -> 0

RECURSIVE Materialize(_, _)
RECURSIVE MatSeq(_, _, _)
RECURSIVE MatProps(_, _, _, _)

\* evaluation of a literal: allocates its objects, returns the value
Materialize(v, h) ==
  IF v \notin LitNames THEN [val |-> v, heap |-> h]
  ELSE LET r == NextFree(h)
           h1 == [h EXCEPT ![r] = [kind |-> LitKind(v), items |-> <<>>, props |-> NoProps]]
           ms == MatSeq(LitItems(v), h1, <<>>)
           mp == MatProps(LitProps(v), 1, ms.heap, NoProps)
       IN [val |-> r,
           heap |-> [mp.heap EXCEPT ![r] =
                      [kind |-> LitKind(v), items |-> ms.vals, props |-> mp.props]]]

MatSeq(items, h, acc) ==
  IF items = <<>> THEN [vals |-> acc, heap |-> h]
  ELSE LET m == Materialize(Head(items), h)
       IN MatSeq(Tail(items), m.heap, Append(acc, m.val))

MatProps(props, i, h, acc) ==
  IF i > Len(PropOrder) THEN [props |-> acc, heap |-> h]
  ELSE LET m == Materialize(props[PropOrder[i]], h)
       IN MatProps(props, i + 1, m.heap, [acc EXCEPT ![PropOrder[i]] = m.val])

CloneOf(r) ==
  CASE r = "dG" -> "kG"
    [] r = "dS" -> "kS"
    [] r \in Refs -> CloneNames[CHOOSE i \in 1..MaxRefs : RefNames[i] = r]
    [] OTHER -> r

RECURSIVE CloneInto(_, _, _)
\* JSON.parse(JSON.stringify(v)): a fresh copy of every object reachable
\* from v; an array keeps its elements only
CloneInto(v, h, depth) ==
  IF ~IsRef(v) \/ depth = 0 THEN h
  ELSE LET c == h[v]
           k == CloneOf(v)
           kItems == [i \in DOMAIN c.items |->
                        IF IsRef(c.items[i]) THEN CloneOf(c.items[i]) ELSE c.items[i]]
           kProps == [p \in PropKeys |->
                        IF c.kind = "list" THEN UNDEF
                        ELSE IF IsRef(c.props[p]) THEN CloneOf(c.props[p]) ELSE c.props[p]]
           h1 == [h EXCEPT ![k] = [kind |-> c.kind, items |-> kItems, props |-> kProps]]
           RECURSIVE OverItems(_, _)
           OverItems(i, hh) ==
             IF i > Len(c.items) THEN hh
             ELSE OverItems(i + 1, CloneInto(c.items[i], hh, depth - 1))
           RECURSIVE OverProps(_, _)
           OverProps(i, hh) ==
             IF i > Len(PropOrder) THEN hh
             ELSE OverProps(i + 1,
                    IF c.kind = "list" THEN hh
                    ELSE CloneInto(c.props[PropOrder[i]], hh, depth - 1))
       IN OverProps(1, OverItems(1, h1))

RECURSIVE CloneFields(_, _, _)
CloneFields(i, s, h) ==
  IF i > Len(FieldOrder) THEN h
  ELSE CloneFields(i + 1, s, CloneInto(s[FieldOrder[i]], h, 3))

\* deepClone (model/core/utils.ts): the snapshot and the heap holding it
deepClone(s, h) ==
  [snapshot |-> [f \in Fields |-> IF IsRef(s[f]) THEN CloneOf(s[f]) ELSE s[f]],
   heap |-> CloneFields(1, s, h)]

\* ------------------------------------------------------------------ Field
\* an access rule of the schema evaluated with (context, model, value)
EvalRule(rule, w) ==
  CASE rule = "true" -> TRUE
    [] rule = "false" -> FALSE
    [] rule = "admin" -> w.context = "admin"
    [] rule = "isNew" -> w.initializer = "make"
    [] OTHER -> FALSE

Field_isReadable(w, f) == EvalRule(Schema[f].readable, w)

\* a write rule that always allows
Field_isWritable_always(w, f) == TRUE

Field_isWritable(w, f) == EvalRule(Schema[f].writable, w)

Field_unsafeGet(w, f) == w.state[f]

\* a change log that records an unset as one more entry
Model_changeLog_appendOnly(log, change) == Append(log, change)

\* Model[MODEL_CHANGE_LOG]: an undefined current value erases the field's log
Model_changeLog(log, change) ==
  IF change.currentValue = UNDEF
  THEN SelectSeq(log, LAMBDA e : e.field # change.field)
  ELSE Append(log, change)

Change(f, prev, cur) == [field |-> f, previousValue |-> prev, currentValue |-> cur]

\* Object.assign(model, {[key]: value}) on the raw instance: creates an
\* ordinary (enumerable, writable) property, keeps an existing descriptor,
\* throws on an existing non-writable property
AssignThrows(w, f) == w.own[f].present /\ ~w.own[f].writable

AssignOwn(w, f) ==
  IF w.own[f].present THEN w.own
  ELSE [w.own EXCEPT ![f] = [present |-> TRUE, enumerable |-> TRUE, writable |-> TRUE]]

\* Field.set without the nullability check
Field_set_noNullCheck(w, f, v) ==
  IF ~Field_isWritable(w, f) THEN [w |-> w, err |-> "FIELD_NOT_WRITABLE"]
  ELSE LET w1 == [w EXCEPT !.changeLog = Model_changeLog(w.changeLog, Change(f, w.state[f], v)),
                           !.state = [w.state EXCEPT ![f] = v]]
       IN IF AssignThrows(w, f) THEN [w |-> w1, err |-> "FIELD_SET_ERROR"]
          ELSE [w |-> [w1 EXCEPT !.own = AssignOwn(w, f)], err |-> "ok"]

Field_set(w, f, v) ==
  IF ~Field_isWritable(w, f) THEN [w |-> w, err |-> "FIELD_NOT_WRITABLE"]
  ELSE IF v = NULL /\ ~Schema[f].nullable THEN [w |-> w, err |-> "FIELD_NOT_NULLABLE"]
  ELSE LET w1 == [w EXCEPT !.changeLog = Model_changeLog(w.changeLog, Change(f, w.state[f], v)),
                           !.state = [w.state EXCEPT ![f] = v]]
       IN IF AssignThrows(w, f) THEN [w |-> w1, err |-> "FIELD_SET_ERROR"]
          ELSE [w |-> [w1 EXCEPT !.own = AssignOwn(w, f)], err |-> "ok"]

Field_unset(w, f) ==
  [w EXCEPT !.changeLog = Model_changeLog(w.changeLog, Change(f, w.state[f], UNDEF)),
            !.state = [w.state EXCEPT ![f] = UNDEF],
            !.own = [w.own EXCEPT ![f] = OwnAbsent]]

\* Field.validate running the eager validators only
Field_validate_eagerOnly(w, f) ==
  IF Field_unsafeGet(w, f) = UNDEF THEN <<>>
  ELSE SelectSeq(Schema[f].validators,
                 LAMBDA vd : ~vd.lazy /\ ~ValidatorResult(vd.name, Field_unsafeGet(w, f)))

\* the validators of f that do not return true for the raw value
Field_validate(w, f) ==
  IF Field_unsafeGet(w, f) = UNDEF THEN <<>>
  ELSE SelectSeq(Schema[f].validators,
                 LAMBDA vd : ~ValidatorResult(vd.name, Field_unsafeGet(w, f)))

\* Field.get testing the value before the read rule
Field_get_initFirst(w, f) ==
  IF w.state[f] = UNDEF THEN [err |-> "FIELD_NOT_INITIALIZED", val |-> UNDEF]
  ELSE IF ~Field_isReadable(w, f) THEN [err |-> "FIELD_NOT_READABLE", val |-> UNDEF]
  ELSE IF Field_validate(w, f) # <<>> THEN [err |-> "FIELD_VALIDATORS_FAILED", val |-> UNDEF]
  ELSE [err |-> "ok", val |-> w.state[f]]

\* Field.get returning undefined for a field without a value
Field_get_lenient(w, f) ==
  IF ~Field_isReadable(w, f) THEN [err |-> "FIELD_NOT_READABLE", val |-> UNDEF]
  ELSE IF Field_validate(w, f) # <<>> THEN [err |-> "FIELD_VALIDATORS_FAILED", val |-> UNDEF]
  ELSE [err |-> "ok", val |-> w.state[f]]

Field_get(w, f) ==
  IF ~Field_isReadable(w, f) THEN [err |-> "FIELD_NOT_READABLE", val |-> UNDEF]
  ELSE IF w.state[f] = UNDEF THEN [err |-> "FIELD_NOT_INITIALIZED", val |-> UNDEF]
  ELSE IF Field_validate(w, f) # <<>> THEN [err |-> "FIELD_VALIDATORS_FAILED", val |-> UNDEF]
  ELSE [err |-> "ok", val |-> w.state[f]]

Field_compute(w, f, computed) ==
  IF ~Schema[f].compute THEN [w |-> w, err |-> "FIELD_NO_COMPUTE", val |-> UNDEF]
  ELSE LET s == Field_set(w, f, computed)
       IN IF s.err # "ok" THEN [w |-> s.w, err |-> s.err, val |-> UNDEF]
          ELSE LET g == Field_get(s.w, f)
               IN [w |-> s.w, err |-> g.err, val |-> g.val]

\* ------------------------------------------------------------------ Model
RECURSIVE ChangesWalk(_, _, _, _)
\* the loop of getChanges over the log, newest entry first
ChangesWalk(log, init, changes, changedFields) ==
  IF log = <<>> THEN changes
  ELSE LET e == log[Len(log)]
           rest == SubSeq(log, 1, Len(log) - 1)
       IN IF e.field \in changedFields THEN ChangesWalk(rest, init, changes, changedFields)
          ELSE IF init[e.field] = e.currentValue
               THEN ChangesWalk(rest, init, changes, changedFields \cup {e.field})
               ELSE ChangesWalk(rest, init, [changes EXCEPT ![e.field] = e.currentValue],
                                changedFields \cup {e.field})

\* getChanges walking the log oldest entry first
Model_getChanges_oldestFirst(log, init) ==
  ChangesWalk([i \in 1..Len(log) |-> log[Len(log) + 1 - i]], init, NoState, {})

\* Model.getChanges
Model_getChanges(log, init) == ChangesWalk(log, init, NoState, {})

Reverse(s) == [i \in 1..Len(s) |-> s[Len(s) + 1 - i]]

Model_getChangeLog(log) == Reverse(log)

\* ------------------------------------------------------------------ initializers
Truthy(v) == v \notin {UNDEF, NULL, "false", "0", ""}

ValueInitializer_getInitialValue(value, options, isHydrating, generated) ==
  IF value # UNDEF THEN value
  ELSE IF isHydrating THEN UNDEF
  ELSE IF Truthy(options.default) THEN options.default
  ELSE IF options.generator = "eager" THEN generated
  ELSE UNDEF

\* state and own properties after value seeding
ValueInitializer_initialize(w, data, isHydrating, generated) ==
  LET init(f) == IF Schema[f].compute THEN UNDEF
                 ELSE ValueInitializer_getInitialValue(data[f], Schema[f], isHydrating, generated)
  IN [w EXCEPT !.state = [f \in Fields |-> init(f)],
               !.own = [f \in Fields |->
                          IF init(f) = UNDEF THEN OwnAbsent
                          ELSE [present |-> TRUE, enumerable |-> TRUE, writable |-> TRUE]]]

Err(code, f, validator) == [code |-> code, field |-> f, validator |-> validator]

\* validateField without the nullability check
validateField_noNullCheck(w, f) ==
  LET value == Field_unsafeGet(w, f)
      eager == SelectSeq(Schema[f].validators, LAMBDA vd : ~vd.lazy)
      failed == SelectSeq(eager, LAMBDA vd : ~ValidatorResult(vd.name, value))
  IN IF value = UNDEF THEN <<>>
     ELSE [i \in 1..Len(failed) |-> Err("FIELD_VALIDATOR_FAILED", f, failed[i].name)]

validateField(w, f) ==
  LET value == Field_unsafeGet(w, f)
      eager == SelectSeq(Schema[f].validators, LAMBDA vd : ~vd.lazy)
      failed == SelectSeq(eager, LAMBDA vd : ~ValidatorResult(vd.name, value))
  IN IF value = UNDEF THEN <<>>
     ELSE (IF value = NULL /\ ~Schema[f].nullable
           THEN <<Err("FIELD_NOT_NULLABLE", f, UNDEF)>> ELSE <<>>)
          \o [i \in 1..Len(failed) |-> Err("FIELD_VALIDATOR_FAILED", f, failed[i].name)]

RECURSIVE ValidationErrors_failFast(_, _)
\* the validation pass stopping at the first field that has errors
ValidationErrors_failFast(w, i) ==
  IF i > Len(FieldOrder) THEN <<>>
  ELSE IF validateField(w, FieldOrder[i]) # <<>> THEN validateField(w, FieldOrder[i])
  ELSE ValidationErrors_failFast(w, i + 1)

RECURSIVE ValidationErrors(_, _)
ValidationErrors(w, i) ==
  IF i > Len(FieldOrder) THEN <<>>
  ELSE validateField(w, FieldOrder[i]) \o ValidationErrors(w, i + 1)

\* the errors collected, and the instance with its properties re-defined
ValidationInitializer_initialize(w) ==
  [errs |-> ValidationErrors(w, 1),
   w |-> [w EXCEPT !.own = [f \in Fields |->
                              IF w.state[f] = UNDEF THEN w.own[f]
                              ELSE [present |-> TRUE,
                                    enumerable |-> Field_isReadable(w, f),
                                    writable |-> Field_isWritable(w, f)]]]]

RECURSIVE MaterializeData(_, _, _, _)
\* the caller's data object: its literals evaluated field by field
MaterializeData(data, i, h, acc) ==
  IF i > Len(FieldOrder) THEN [data |-> acc, heap |-> h]
  ELSE LET m == Materialize(data[FieldOrder[i]], h)
       IN MaterializeData(data, i + 1, m.heap, [acc EXCEPT ![FieldOrder[i]] = m.val])

RECURSIVE SumSizes(_, _)
SumSizes(data, i) ==
  IF i > Len(FieldOrder) THEN 0 ELSE LitSize(data[FieldOrder[i]]) + SumSizes(data, i + 1)

RECURSIVE SeedLog_providedOnly(_, _, _)
\* a seeding that leaves out the values the schema supplied
SeedLog_providedOnly(s, i, log) ==
  IF i > Len(FieldOrder) THEN log
  ELSE LET f == FieldOrder[i]
       IN SeedLog_providedOnly(s, i + 1,
            IF s[f] = UNDEF \/ s[f] = Schema[f].default THEN log
            ELSE Model_changeLog(log, Change(f, UNDEF, s[f])))

RECURSIVE SeedLog(_, _, _)
\* step 5 of make: one entry per key of the state, in insertion order
SeedLog(s, i, log) ==
  IF i > Len(FieldOrder) THEN log
  ELSE LET f == FieldOrder[i]
       IN SeedLog(s, i + 1,
                  IF s[f] = UNDEF THEN log ELSE Model_changeLog(log, Change(f, UNDEF, s[f])))

RECURSIVE Entries(_, _)
\* Object.entries of a data object
Entries(data, i) ==
  IF i > Len(FieldOrder) THEN <<>>
  ELSE (IF data[FieldOrder[i]] = UNDEF THEN <<>> ELSE <<<<FieldOrder[i], data[FieldOrder[i]]>>>>)
       \o Entries(data, i + 1)

D(pairs) == [f \in Fields |-> IF f \in DOMAIN pairs THEN pairs[f] ELSE UNDEF]

DataSet ==
  { D(<<>>),
    D([password |-> "p123", email |-> "bad"]),
    D([id |-> "id1", name |-> "Martin", password |-> "p123", email |-> "a@b",
       groups |-> "lit:ab", settings |-> "lit:deep"]),
    D([id |-> "id1", groups |-> "lit:objs", role |-> "admin"]),
    D([password |-> NULL]),
    D([name |-> NULL, password |-> "p1"]),
    D([id |-> NULL, password |-> "p1", role |-> NULL]) }

\* results the schema's generators can produce
GeneratorResults == {"sid", NULL}

Construct(op, data, isHydrating, generated) ==
  /\ phase = "none"
  /\ SumSizes(data, 1) <= Cardinality(FreeRefs(heap))
  /\ LET md == MaterializeData(data, 1, heap, NoState)
         w0 == World(NoState, <<>>, NoOwn, md.heap, op, ctx)
         w1 == ValueInitializer_initialize(w0, md.data, isHydrating, generated)
         vi == ValidationInitializer_initialize(w1)
         w2 == vi.w
         ran == IF ~isHydrating /\ md.data["id"] = UNDEF THEN generated ELSE UNDEF
     IN /\ initializer' = op
        /\ IF vi.errs # <<>>
           THEN /\ phase' = "failed"
                /\ res' = [Result(op, UNDEF, ran, "MODEL_FIELD_VALIDATION_FAILED", UNDEF)
                             EXCEPT !.errs = vi.errs, !.data = Entries(data, 1)]
                /\ UNCHANGED <<state, changeLog, initialState, own, heap>>
           ELSE /\ phase' = "live"
                /\ res' = [ResultData(op, UNDEF, Entries(data, 1), "ok") EXCEPT !.arg = ran]
                /\ IF isHydrating
                   THEN LET dc == deepClone(w2.state, w2.heap)
                        IN /\ initialState' = dc.snapshot
                           /\ Commit([w2 EXCEPT !.heap = dc.heap])
                   ELSE /\ initialState' = NoState
                        /\ Commit([w2 EXCEPT !.changeLog = SeedLog(w2.state, 1, <<>>)])
  /\ UNCHANGED <<ctx, adapter, frames, ops, flows, registry, thrown>>

Make(data, generated) == Construct("make", data, FALSE, generated)

From(data) == Construct("from", data, TRUE, UNDEF)

\* ------------------------------------------------------------------ calls on the instance
Live == phase = "live" /\ ops < MaxOps

Done(r, w) ==
  /\ res' = r
  /\ Commit(w)
  /\ ops' = ops + 1
  /\ UNCHANGED <<phase, initializer, initialState, ctx, adapter, frames, flows, registry, thrown>>

\* proxy get trap for a schema key
Proxy_get(w, f, computed) ==
  IF Schema[f].compute THEN Field_compute(w, f, computed)
  ELSE LET g == Field_get(w, f) IN [w |-> w, err |-> g.err, val |-> g.val]

ComputeResults(w, f) == {ComputeLabel(w.state["id"]), NULL}

PropRead(f, computed) ==
  /\ Live
  /\ computed \in (IF Schema[f].compute THEN ComputeResults(Cur, f) ELSE {UNDEF})
  /\ LET g == Proxy_get(Cur, f, computed)
     IN Done(Result("read", f, computed, g.err, g.val), g.w)

BoundGet(f) ==
  /\ Live
  /\ LET g == Field_get(Cur, f)
     IN Done(Result("get", f, UNDEF, g.err, g.val), Cur)

UnsafeGet(f) ==
  /\ Live
  /\ Done(Result("unsafeGet", f, UNDEF, "ok", Field_unsafeGet(Cur, f)), Cur)

\* proxy set trap for a schema key
Proxy_set(w, f, v) ==
  IF Schema[f].compute THEN [w |-> w, err |-> "FIELD_IS_COMPUTED"]
  ELSE IF ~Field_isWritable(w, f) THEN [w |-> w, err |-> "FIELD_NOT_WRITABLE"]
  ELSE Field_set(w, f, v)

PropWrite(f, lit) ==
  /\ Live
  /\ LitSize(lit) <= Cardinality(FreeRefs(heap))
  /\ LET m == Materialize(lit, heap)
         s == Proxy_set([Cur EXCEPT !.heap = m.heap], f, m.val)
     IN Done(Result("assign", f, m.val, s.err, UNDEF), s.w)

BoundSet(f, lit) ==
  /\ Live
  /\ LitSize(lit) <= Cardinality(FreeRefs(heap))
  /\ LET m == Materialize(lit, heap)
         s == Field_set([Cur EXCEPT !.heap = m.heap], f, m.val)
     IN Done(Result("boundSet", f, m.val, s.err, UNDEF), s.w)

SetContext(c) ==
  /\ Live
  /\ c # ctx
  /\ ctx' = c
  /\ res' = Result("context", UNDEF, c, "ok", UNDEF)
  /\ ops' = ops + 1
  /\ UNCHANGED <<phase, initializer, state, changeLog, initialState, own, heap, adapter, frames, flows, registry, thrown>>

\* ------------------------------------------------------------------ Model methods
RECURSIVE Model_set(_, _)
\* set(data): entries in order, undefined values skipped, stops at the first throw
Model_set(w, entries) ==
  IF entries = <<>> THEN [w |-> w, err |-> "ok", f |-> UNDEF]
  ELSE LET e == Head(entries)
       IN IF e[2] = UNDEF THEN Model_set(w, Tail(entries))
          ELSE LET s == Field_set(w, e[1], e[2])
               IN IF s.err # "ok" THEN [w |-> s.w, err |-> s.err, f |-> e[1]]
                  ELSE Model_set(s.w, Tail(entries))

RECURSIVE Model_unset(_, _)
Model_unset(w, keys) ==
  IF keys = <<>> THEN w ELSE Model_unset(Field_unset(w, Head(keys)), Tail(keys))

InKeys(keys, f) == \E i \in DOMAIN keys : keys[i] = f

\* no field recognised as an ID field
IsIdField_never(f) == FALSE

IsIdField(f) == Schema[f].kind = "IdField"

RECURSIVE Model_only(_, _, _)
Model_only(w, keys, i) ==
  IF i > Len(FieldOrder) THEN w
  ELSE LET f == FieldOrder[i]
       IN IF InKeys(keys, f) \/ IsIdField(f) THEN Model_only(w, keys, i + 1)
          ELSE Model_only(Field_unset(w, f), keys, i + 1)

RECURSIVE Model_except(_, _, _)
Model_except(w, keys, i) ==
  IF i > Len(FieldOrder) THEN [w |-> w, err |-> "ok"]
  ELSE LET f == FieldOrder[i]
       IN IF ~InKeys(keys, f) THEN Model_except(w, keys, i + 1)
          ELSE IF IsIdField(f) THEN [w |-> w, err |-> "ID_FIELD_CANNOT_BE_EXCLUDED"]
          ELSE Model_except(Field_unset(w, f), keys, i + 1)

\* data objects passed to set, as ordered entries
SetData ==
  { <<<<"name", "Joe">>, <<"password", NULL>>>>,
    <<<<"role", NULL>>>>,
    <<<<"password", NULL>>>>,
    <<<<"name", UNDEF>>, <<"email", "bad">>>>,
    <<<<"password", "p1">>, <<"role", "admin">>, <<"name", "Joe">>>> }

UnsetKeys == { <<"name">>, <<"password">>, <<"groups", "settings">>, <<"role", "id">> }
OnlyKeys == { <<"name">>, <<"id", "groups">>, <<"password", "role">> }
ExceptKeys == { <<"name">>, <<"id">>, <<"groups", "id", "password">>, <<"settings", "role">> }

ModelSet(entries) ==
  /\ Live
  /\ LET s == Model_set(Cur, entries)
     IN Done(ResultData("set", s.f, entries, s.err), s.w)

Unset(keys) ==
  /\ Live
  /\ Done(ResultData("unset", keys[1], keys, "ok"), Model_unset(Cur, keys))

Only(keys) ==
  /\ Live
  /\ Done(ResultData("only", keys[1], keys, "ok"), Model_only(Cur, keys, 1))

Except(keys) ==
  /\ Live
  /\ LET e == Model_except(Cur, keys, 1)
     IN Done(ResultData("except", keys[1], keys, e.err), e.w)

\* ------------------------------------------------------------------ nested proxies
isArrayOrObject(v) == IsRef(v)

\* default sort order of the list elements (an object sorts before a lower-case string)
SortRank(v) ==
  CASE IsRef(v) -> 0
    [] v = "g0" -> 1
    [] v = "g1" -> 2
    [] v = "g2" -> 3
    [] v = "g3" -> 4
    [] OTHER -> 5

RECURSIVE InsertSorted(_, _)
InsertSorted(sorted, v) ==
  IF sorted = <<>> THEN <<v>>
  ELSE IF SortRank(v) < SortRank(Head(sorted)) THEN <<v>> \o sorted
  ELSE <<Head(sorted)>> \o InsertSorted(Tail(sorted), v)

RECURSIVE SortItems(_, _)
SortItems(items, acc) ==
  IF items = <<>> THEN acc ELSE SortItems(Tail(items), InsertSorted(acc, Head(items)))

\* the list of mutating methods with sort left out
MutatingMethods_noSort == {"push", "pop", "shift", "unshift", "splice", "reverse", "fill", "copyWithin"}

MutatingMethods == {"push", "pop", "shift", "unshift", "splice", "sort", "reverse", "fill", "copyWithin"}

\* the array methods a caller invokes through the instance
ArrayMethods ==
  {"push", "pop", "shift", "unshift", "splice", "sort", "reverse", "fill", "copyWithin", "includes"}

\* the array after originalMethod.apply(target, args); the calls are
\* push(x), pop(), shift(), unshift(x), splice(1, 1), sort(), reverse(),
\* fill(x), copyWithin(0, 1), includes(x)
ArrayApply(method, items, x) ==
  LET n == Len(items) IN
  CASE method = "push" -> Append(items, x)
    [] method = "pop" -> IF n = 0 THEN items ELSE SubSeq(items, 1, n - 1)
    [] method = "shift" -> IF n = 0 THEN items ELSE Tail(items)
    [] method = "unshift" -> <<x>> \o items
    [] method = "splice" -> IF n < 2 THEN items ELSE <<items[1]>> \o SubSeq(items, 3, n)
    [] method = "sort" -> SortItems(items, <<>>)
    [] method = "reverse" -> Reverse(items)
    [] method = "fill" -> [i \in 1..n |-> x]
    [] method = "copyWithin" -> [i \in 1..n |-> IF i < n THEN items[i + 1] ELSE items[i]]
    [] OTHER -> items

\* recordChange of createFieldsProxy: commits the container through the bound field
recordChange(w, f, newValue) == Field_set(w, f, newValue)

\* createNestedProxy(field): the object the nested proxy wraps, for the
\* value `inner` found under the proxy of `root`
createNestedProxy(root, inner) == root

\* instance.f.method(x)
createArrayProxy_call(w, f, method, x) ==
  LET g == Proxy_get(w, f, UNDEF)
  IN IF g.err # "ok" THEN [w |-> w, err |-> g.err]
     ELSE IF ~isArrayOrObject(g.val) \/ w.heap[g.val].kind # "list"
          THEN [w |-> w, err |-> "TypeError"]
     ELSE LET target == g.val
              w1 == [w EXCEPT !.heap[target].items = ArrayApply(method, @, x)]
          IN IF method \in MutatingMethods THEN recordChange(w1, f, target)
             ELSE [w |-> w1, err |-> "ok"]

\* set trap of a nested proxy over target: Reflect.set, then recordChange
NestedProxy_set(w, f, target, prop, v) ==
  recordChange([w EXCEPT !.heap[target].props[prop] = v], f, target)

\* instance.f.prop = v
createObjectProxy_assign(w, f, prop, v) ==
  LET g == Proxy_get(w, f, UNDEF)
  IN IF g.err # "ok" THEN [w |-> w, err |-> g.err]
     ELSE IF ~isArrayOrObject(g.val) THEN [w |-> w, err |-> "TypeError"]
     ELSE NestedProxy_set(w, f, g.val, prop, v)

\* the value of instance.f[step] as the get trap of the nested proxy over root returns it
NestedProxy_get(w, root, step) ==
  LET c == w.heap[root]
      value == IF step \in PropKeys THEN c.props[step]
               ELSE IF c.kind = "list" /\ Len(c.items) >= 1 THEN c.items[1] ELSE UNDEF
  IN IF isArrayOrObject(value) THEN createNestedProxy(root, value) ELSE value

\* instance.f[step].prop = v, step a property name or "0" (first element)
NestedProxy_deepAssign(w, f, step, prop, v) ==
  LET g == Proxy_get(w, f, UNDEF)
  IN IF g.err # "ok" THEN [w |-> w, err |-> g.err]
     ELSE IF ~isArrayOrObject(g.val) THEN [w |-> w, err |-> "TypeError"]
     ELSE LET inner == NestedProxy_get(w, g.val, step)
          IN IF ~isArrayOrObject(inner) THEN [w |-> w, err |-> "TypeError"]
             ELSE NestedProxy_set(w, f, inner, prop, v)

ListFields == {"groups"}
ContainerFields == {"groups", "settings"}

ArrayMutate(f, method, x) ==
  /\ Live
  /\ method \in {"push", "unshift"} => (IsRef(state[f]) => Len(heap[state[f]].items) < MaxLen)
  /\ LET r == createArrayProxy_call(Cur, f, method, x)
     IN Done(Result(method, f, x, r.err, UNDEF), r.w)

RecordAssign(f, prop, v) ==
  /\ Live
  /\ LET r == createObjectProxy_assign(Cur, f, prop, v)
     IN Done(ResultData("assignIn", f, <<prop, v>>, r.err), r.w)

DeepAssign(f, step, prop, v) ==
  /\ Live
  /\ LET r == NestedProxy_deepAssign(Cur, f, step, prop, v)
     IN Done(ResultData("assignDeep", f, <<step, prop, v>>, r.err), r.w)

\* ------------------------------------------------------------------ generate and validate
\* what the generator of f returns when invoked
GeneratorValues(f) ==
  CASE f = "id" -> GeneratorResults
    [] f = "email" -> {"gen@x"}
    [] OTHER -> {UNDEF}

Field_generate(w, f, generated) ==
  IF Schema[f].generator = "none" THEN [w |-> w, err |-> "FIELD_NO_GENERATOR"]
  ELSE IF Truthy(Field_unsafeGet(w, f)) THEN [w |-> w, err |-> "FIELD_ALREADY_GENERATED"]
  ELSE IF w.initializer = "from" THEN [w |-> w, err |-> "FIELD_CANNOT_GENERATE_EXISTING"]
  ELSE Field_set(w, f, generated)

\* keys of an optional keys argument; <<"*">> stands for no argument
AllKeys == <<"*">>
InKeysOpt(keys, f) == keys = AllKeys \/ InKeys(keys, f)

RECURSIVE Model_generate(_, _, _, _)
\* Model.generate(keys?): the loop over the fields from position i;
\* gen maps a field to what its generator returns
Model_generate(w, keys, i, gen) ==
  IF i > Len(FieldOrder) THEN [w |-> w, err |-> "ok", f |-> UNDEF]
  ELSE LET f == FieldOrder[i]
       IN IF ~InKeysOpt(keys, f) THEN Model_generate(w, keys, i + 1, gen)
          ELSE IF Schema[f].generator # "none" /\ Field_unsafeGet(w, f) = UNDEF
               THEN LET r == Field_generate(w, f, gen[f])
                    IN IF r.err # "ok" THEN [w |-> r.w, err |-> r.err, f |-> f]
                       ELSE Model_generate(r.w, keys, i + 1, gen)
          ELSE Model_generate(w, keys, i + 1, gen)

RECURSIVE Model_validate(_, _, _)
\* Model.validate(keys?): the merged errors of field.validate() over the fields from position i
Model_validate(w, keys, i) ==
  IF i > Len(FieldOrder) THEN <<>>
  ELSE LET f == FieldOrder[i]
           failed == Field_validate(w, f)
           errs == [j \in 1..Len(failed) |-> Err("FIELD_VALIDATOR_FAILED", f, failed[j].name)]
       IN (IF InKeysOpt(keys, f) THEN errs ELSE <<>>) \o Model_validate(w, keys, i + 1)

\* instance.$f.generate()
BoundGenerate(f, generated) ==
  /\ Live
  /\ LET r == Field_generate(Cur, f, generated)
     IN Done(Result("generate", f, generated, r.err, UNDEF), r.w)

\* instance.generate(keys)
ModelGenerate(keys, generated) ==
  /\ Live
  /\ LET gen == [f \in Fields |-> IF f = "id" THEN generated ELSE "gen@x"]
         r == Model_generate(Cur, keys, 1, gen)
     IN Done([ResultData("generateAll", r.f, keys, r.err) EXCEPT !.arg = generated], r.w)

\* instance.validate(keys)
Validate(keys) ==
  /\ Live
  /\ Done([ResultData("validate", UNDEF, keys, "ok") EXCEPT !.errs = Model_validate(Cur, keys, 1)], Cur)

\* values that are numbers
Numbers == {"n123"}

\* typeof / Array.isArray of a value
TypeOf(v, h) ==
  CASE v = UNDEF -> "undefined"
    [] v = NULL -> "null"
    [] v \in Numbers -> "number"
    [] v \in AllRefs -> (IF h[v].kind = "list" THEN "array" ELSE "object")
    [] OTHER -> "string"

\* DEFAULT_FIELD_TYPES[kind](value)
DEFAULT_FIELD_TYPES(kind, v, h) ==
  CASE kind \in {"IdField", "TextField", "OptionField"} -> TypeOf(v, h) = "string"
    [] kind = "ListField" -> TypeOf(v, h) = "array"
    [] kind = "RecordField" -> TypeOf(v, h) \in {"object", "null"}
    [] OTHER -> FALSE

\* Field.isValid: every validator accepts the raw value, undefined included
Field_isValid(w, f) ==
  \A i \in DOMAIN Schema[f].validators :
    ValidatorResult(Schema[f].validators[i].name, Field_unsafeGet(w, f))

\* Object.keys(instance): the own enumerable properties
ObjectKeys(w) == {f \in Fields : w.own[f].present /\ w.own[f].enumerable}

\* Model.hasValid over a set of field names
Model_hasValid(w, keySet) == \A f \in keySet : Field_isValid(w, f)

\* Model.isValid(): hasValid(Object.keys(this))
Model_isValid(w) == Model_hasValid(w, ObjectKeys(w))

Bool(b) == IF b THEN "true" ELSE "false"

\* instance.$f.isValid()
BoundIsValid(f) ==
  /\ Live
  /\ Done(Result("fieldIsValid", f, UNDEF, "ok", Bool(Field_isValid(Cur, f))), Cur)

\* instance.hasValid(keys)
HasValid(keys) ==
  /\ Live
  /\ Done([ResultData("hasValid", UNDEF, keys, "ok") EXCEPT
              !.val = Bool(Model_hasValid(Cur, {keys[i] : i \in DOMAIN keys}))], Cur)

\* instance.isValid()
IsValid ==
  /\ Live
  /\ Done(Result("isValid", UNDEF, UNDEF, "ok", Bool(Model_isValid(Cur))), Cur)

\* values a caller assigns, per field
WriteValues(f) ==
  CASE f = "id" -> {"id2"}
    [] f = "name" -> {"Joe", NULL, UNDEF}
    [] f = "password" -> {"p1234", "p1", NULL}
    [] f = "email" -> {"a@b", "bad"}
    [] f = "role" -> {"admin", NULL}
    [] f = "groups" -> {"lit:abc"}
    [] f = "settings" -> {"lit:rec"}
    [] OTHER -> {"L-x"}

BoundValues(f) ==
  CASE f = "id" -> {"id2"}
    [] f = "password" -> {NULL}
    [] f = "role" -> {"admin"}
    [] OTHER -> {"L-x", NULL}

Init ==
  /\ phase = "none"
  /\ initializer = "make"
  /\ state = NoState
  /\ changeLog = <<>>
  /\ initialState = NoState
  /\ own = NoOwn
  /\ heap = InitHeap
  /\ ctx \in Contexts
  /\ adapter = "global"
  /\ frames = <<>>
  /\ flows = NoFlows
  /\ registry = NoRegistry
  /\ thrown = <<>>
  /\ res = NoRes
  /\ ops = 0

Next ==
  \/ \E data \in DataSet, g \in GeneratorResults : Make(data, g)
  \/ \E data \in DataSet : From(data)
  \/ \E f \in Fields, c \in {UNDEF, NULL, "L-sid", "L-id1", "L-id2", "L-none"} : PropRead(f, c)
  \/ \E f \in {"email", "password", "name"} : BoundGet(f)
  \/ \E f \in Fields : UnsafeGet(f)
  \/ \E f \in Fields : \E v \in WriteValues(f) : PropWrite(f, v)
  \/ \E f \in {"id", "password", "role", "label"} : \E v \in BoundValues(f) : BoundSet(f, v)
  \/ \E c \in Contexts : SetContext(c)
  \/ \E entries \in SetData : ModelSet(entries)
  \/ \E keys \in UnsetKeys : Unset(keys)
  \/ \E keys \in OnlyKeys : Only(keys)
  \/ \E keys \in ExceptKeys : Except(keys)
  \/ \E f \in ListFields, m \in ArrayMethods : ArrayMutate(f, m, "g3")
  \/ \E f \in ContainerFields : RecordAssign(f, "theme", "dark")
  \/ \E f \in ContainerFields, step \in {"a", "0"} : DeepAssign(f, step, IF step = "a" THEN "b" ELSE "x", "v2")

Spec == Init /\ [][Next]_vars

\* ------------------------------------------------------------------ generate / validate calls
\* data a caller passes to set before validating or generating
MethodSetData ==
  { <<<<"password", "p1">>, <<"email", "bad">>>>,
    <<<<"password", "p1">>>>,
    <<<<"email", "">>>>,
    <<<<"password", "p1234">>, <<"email", "a@b">>>>,
    <<<<"name", "n123">>>> }

MethodUnsetKeys == {<<"id">>, <<"email">>, <<"password">>}
GenerateKeys == {AllKeys, <<"email">>, <<"name">>}
ValidateKeys == {AllKeys, <<"password">>, <<"email", "name">>}

NextMethods ==
  \/ \E data \in DataSet, g \in GeneratorResults : Make(data, g)
  \/ \E data \in DataSet : From(data)
  \/ \E entries \in MethodSetData : ModelSet(entries)
  \/ \E keys \in MethodUnsetKeys : Unset(keys)
  \/ \E f \in {"id", "email", "name"} : \E g \in GeneratorValues(f) : BoundGenerate(f, g)
  \/ \E keys \in GenerateKeys : ModelGenerate(keys, "sid")
  \/ \E keys \in ValidateKeys : Validate(keys)
  \/ \E f \in {"password", "email"} : BoundIsValid(f)
  \/ \E keys \in ValidateKeys \ {AllKeys} : HasValid(keys)
  \/ IsValid
  \/ \E f \in {"groups", "settings"}, lit \in {"lit:ab", "lit:rec"} : BoundSet(f, lit)

SpecMethods == Init /\ [][NextMethods]_vars

\* ------------------------------------------------------------------ value seeding of one field
\* input values, declared defaults and generator results of a field
SeedInputs == {UNDEF, NULL, "v", ""}
SeedDefaults == {UNDEF, "d", "false", "0", ""}
SeedGenerators == {"none", "eager", "lazy"}
SeedGenerated == {"sid", "0"}

\* ValueInitializer.getInitialValue(data[fieldName], {...field.options, isHydrating})
SeedValue(value, default, generator, mode, generated) ==
  /\ res' = [Result("seed", UNDEF, generated, "ok",
                    ValueInitializer_getInitialValue(
                      value, [default |-> default, generator |-> generator],
                      mode = "from", generated))
             EXCEPT !.data = <<value, default, generator, mode>>]
  /\ UNCHANGED <<phase, initializer, state, changeLog, initialState, own, heap, ctx, adapter, frames, ops, flows, registry, thrown>>

NextSeeding ==
  \E value \in SeedInputs, default \in SeedDefaults, generator \in SeedGenerators,
     mode \in {"make", "from"}, generated \in SeedGenerated :
    SeedValue(value, default, generator, mode, generated)

SpecSeeding == Init /\ [][NextSeeding]_vars

\* ------------------------------------------------------------------ association validation
AssocMaxLen == 2

\* a value embedded in an association field: null, or an object with its
\* id, whether it has keys besides id, and what the target path resolves to
AssocNull == [kind |-> "null", id |-> UNDEF, extra |-> FALSE, target |-> UNDEF]
AssocObject(id, extra, target) == [kind |-> "object", id |-> id, extra |-> extra, target |-> target]

AssocEmbedded ==
  { AssocObject("p1", TRUE, "1"), AssocObject("p1", TRUE, "2"), AssocObject("p1", TRUE, UNDEF),
    AssocObject("p1", FALSE, UNDEF), AssocObject(UNDEF, TRUE, "2"), AssocNull }

AssocValues == UNION {[1..n -> AssocEmbedded] : n \in 0..AssocMaxLen}

\* what the source path resolves to on the owning instance
AssocSources == {"1", "2", UNDEF}

\* every embedded value taken as loaded
isLoaded_always(value) == TRUE

\* isLoaded of validateAssociation
isLoaded(value) == value.id # UNDEF /\ value.extra

\* the validator AssociationRegistry.register compiles
AssociationRegistry_validator(source, value) == source = value.target

RECURSIVE validateAssociation(_, _, _, _)
\* validateAssociation: the loop over the values from position i; reading
\* .id of null throws
validateAssociation(registered, source, values, i) ==
  IF ~registered
  THEN [threw |-> FALSE, errs |-> <<Err("ASSOCIATION_VALIDATOR_NOT_FOUND", "posts", UNDEF)>>]
  ELSE IF i > Len(values) THEN [threw |-> FALSE, errs |-> <<>>]
  ELSE IF values[i].kind = "null" THEN [threw |-> TRUE, errs |-> <<>>]
  ELSE LET rest == validateAssociation(registered, source, values, i + 1)
       IN IF ~isLoaded(values[i]) \/ AssociationRegistry_validator(source, values[i]) THEN rest
          ELSE [rest EXCEPT !.errs = <<Err("ASSOCIATION_INVALID", "posts", UNDEF)>> \o @]

\* make / from of an owner whose association field holds `values`
AssociationConstruct(registered, source, values) ==
  /\ phase = "none"
  /\ LET v == validateAssociation(registered, source, values, 1)
     IN /\ res' = [Result("associate", "posts", source,
                          IF v.threw THEN "TypeError"
                          ELSE IF v.errs # <<>> THEN "MODEL_FIELD_VALIDATION_FAILED" ELSE "ok",
                          IF registered THEN "registered" ELSE "missing")
                   EXCEPT !.errs = v.errs, !.data = values]
        /\ phase' = IF v.threw \/ v.errs # <<>> THEN "failed" ELSE "live"
  /\ UNCHANGED <<initializer, state, changeLog, initialState, own, heap, ctx, adapter, frames, ops, flows, registry, thrown>>

NextAssociation ==
  \E registered \in BOOLEAN, source \in AssocSources, values \in AssocValues :
    AssociationConstruct(registered, source, values)

SpecAssociation == Init /\ [][NextAssociation]_vars

\* ------------------------------------------------------------------ method authorization
\* contexts: not set, or an auth actor with a role and an id
AuthContexts == {UNDEF, "admin1", "user1", "user2"}
AuthIsAdmin(c) == c = "admin1"
AuthId(c) == CASE c \in {"admin1", "user1"} -> "1" [] c = "user2" -> "2" [] OTHER -> UNDEF

Methods == {"getFullName", "adjustRole", "adjustSettings"}
InstanceIds == {"1", "2", UNDEF}

\* the @can conditions of User: what each returns for (context, instance);
\* optional chaining on a missing context yields undefined
CanCondition(method, context, id) ==
  CASE method = "adjustRole" ->
         (IF context = UNDEF THEN "undefined" ELSE IF AuthIsAdmin(context) THEN "true" ELSE "false")
    [] method = "adjustSettings" -> (IF AuthId(context) = id THEN "true" ELSE "false")
    [] OTHER -> "none"

MethodReturn(method) ==
  CASE method = "adjustRole" -> "adjusted role"
    [] method = "adjustSettings" -> "adjusted settings"
    [] OTHER -> "full name"

\* getContext reading the ambient context only
getContext_ambientOnly(inst, cls, ambient) == ambient

\* getContext of the instance: its own override, else the class's, else the ambient context
getContext(inst, cls, ambient) ==
  IF inst # UNDEF THEN inst ELSE IF cls # UNDEF THEN cls ELSE ambient

\* the wrapper WithAuthorization installs over a method that has a condition
WithAuthorization_call(method, context, id) ==
  IF CanCondition(method, context, id) = "false"
  THEN [err |-> "UNAUTHORIZED_METHOD_CALL", val |-> UNDEF]
  ELSE [err |-> "ok", val |-> MethodReturn(method)]

\* instance.method() on an instance with the given id and context overrides
CallMethod(method, inst, cls, ambient, id) ==
  /\ phase = "none"
  /\ LET r == IF CanCondition(method, UNDEF, id) = "none"
              THEN [err |-> "ok", val |-> MethodReturn(method)]
              ELSE WithAuthorization_call(method, getContext(inst, cls, ambient), id)
     IN res' = [Result("call", method, id, r.err, r.val) EXCEPT !.data = <<inst, cls, ambient>>]
  /\ phase' = "live"
  /\ UNCHANGED <<initializer, state, changeLog, initialState, own, heap, ctx, adapter, frames, ops, flows, registry, thrown>>

NextAuthorization ==
  \E method \in Methods, inst \in AuthContexts, cls \in AuthContexts,
     ambient \in AuthContexts, id \in InstanceIds :
    CallMethod(method, inst, cls, ambient, id)

SpecAuthorization == Init /\ [][NextAuthorization]_vars

\* ------------------------------------------------------------------ context adapters
MaxDepth == 2

\* ctx = "none" is the undefined context
RunContexts == {"admin", "user"}

\* Context.useGlobalStorage(): a fresh global adapter, its slot undefined
UseGlobalStorage ==
  /\ frames = <<>>
  /\ flows = NoFlows
  /\ adapter' = "global"
  /\ ctx' = "none"
  /\ res' = Result("useGlobalStorage", UNDEF, UNDEF, "ok", UNDEF)
  /\ UNCHANGED <<phase, initializer, state, changeLog, initialState, own, heap, frames, ops, flows, registry, thrown>>

\* Context.useAsyncLocalStorage(): a fresh AsyncLocalStorage, no store
UseAsyncLocalStorage ==
  /\ frames = <<>>
  /\ flows = NoFlows
  /\ adapter' = "scoped"
  /\ ctx' = "none"
  /\ res' = Result("useAsyncLocalStorage", UNDEF, UNDEF, "ok", UNDEF)
  /\ UNCHANGED <<phase, initializer, state, changeLog, initialState, own, heap, frames, ops, flows, registry, thrown>>

\* Context.set(c)
Context_set(c) ==
  /\ c # ctx
  /\ IF adapter = "global"
     THEN ctx' = c /\ res' = Result("set", UNDEF, c, "ok", UNDEF)
     ELSE ctx' = ctx /\ res' = Result("set", UNDEF, c, "CONTEXT_USE_RUN_METHOD", UNDEF)
  /\ UNCHANGED <<phase, initializer, state, changeLog, initialState, own, heap, adapter, frames, ops, flows, registry, thrown>>

\* Context.reset()
Context_reset ==
  /\ IF adapter = "global"
     THEN ctx' = "none" /\ res' = Result("reset", UNDEF, UNDEF, "ok", UNDEF)
     ELSE ctx' = ctx /\ res' = Result("reset", UNDEF, UNDEF, "CONTEXT_AUTO_RESET", UNDEF)
  /\ UNCHANGED <<phase, initializer, state, changeLog, initialState, own, heap, adapter, frames, ops, flows, registry, thrown>>

\* Context.get()
Context_get ==
  /\ res' = Result("get", UNDEF, UNDEF, "ok", ctx)
  /\ UNCHANGED <<phase, initializer, state, changeLog, initialState, own, heap, ctx, adapter, frames, ops, flows, registry, thrown>>

\* the context left behind when run ends: the global adapter clears its slot,
\* AsyncLocalStorage goes back to the store of the caller
runExit(kind, previous) == IF kind = "global" THEN "none" ELSE previous

\* Context.run(c, fn) up to the point where fn starts; the frame remembers the
\* context the call found (AsyncLocalStorage keeps it, the global adapter does not)
Context_run_enter(c) ==
  /\ Len(frames) < MaxDepth
  /\ frames' = Append(frames, [context |-> c, previous |-> ctx])
  /\ ctx' = c
  /\ res' = Result("runEnter", UNDEF, c, "ok", UNDEF)
  /\ UNCHANGED <<phase, initializer, state, changeLog, initialState, own, heap, adapter, ops, flows, registry, thrown>>

\* fn of the innermost Context.run returns or throws
Context_run_exit(threw) ==
  /\ frames # <<>>
  /\ LET top == frames[Len(frames)]
     IN /\ ctx' = runExit(adapter, top.previous)
        /\ res' = [Result("runExit", UNDEF, top.context, IF threw THEN "thrown" ELSE "ok", UNDEF)
                     EXCEPT !.before = top.previous]
  /\ frames' = SubSeq(frames, 1, Len(frames) - 1)
  /\ UNCHANGED <<phase, initializer, state, changeLog, initialState, own, heap, adapter, ops, flows, registry, thrown>>

NextContext ==
  \/ UseGlobalStorage
  \/ UseAsyncLocalStorage
  \/ \E c \in RunContexts : Context_set(c)
  \/ Context_reset
  \/ Context_get
  \/ \E c \in RunContexts : Context_run_enter(c)
  \/ \E threw \in BOOLEAN : Context_run_exit(threw)

SpecContext == Init /\ [][NextContext]_vars

\* ------------------------------------------------------------------ concurrent flows
MaxTasks == 1

\* adapter.get() that reads the shared slot whatever the adapter
Adapter_get_shared(kind, slot, store) == slot

\* adapter.get(): the global adapter reads its slot, the scoped one the store
\* of the asynchronous context that evaluates it
Adapter_get(kind, slot, store) == IF kind = "global" THEN slot ELSE store

FlowResult(op, f, err, val) == Result(op, UNDEF, f, err, val)

\* a flow calls Context.run(c, fn): fn starts; a flow is one run together
\* with the tasks it scheduled
Flow_run(f, c) ==
  /\ ~flows[f].running
  /\ flows[f].tasks = <<>>
  /\ flows' = [flows EXCEPT ![f].running = TRUE, ![f].context = c, ![f].store = c]
  /\ ctx' = IF adapter = "global" THEN c ELSE ctx
  /\ res' = FlowResult("flowRun", f, "ok", c)
  /\ UNCHANGED <<phase, initializer, state, changeLog, initialState, own, heap, adapter, frames, ops, registry, thrown>>

\* Context.get() evaluated inside fn
Flow_get(f) ==
  /\ flows[f].running
  /\ res' = FlowResult("flowGet", f, "ok", Adapter_get(adapter, ctx, flows[f].store))
  /\ UNCHANGED <<phase, initializer, state, changeLog, initialState, own, heap, ctx, adapter, frames, flows, ops, registry, thrown>>

\* Context.set(c) inside fn
Flow_set(f, c) ==
  /\ flows[f].running
  /\ IF adapter = "global"
     THEN ctx' = c /\ res' = FlowResult("flowSet", f, "ok", c)
     ELSE ctx' = ctx /\ res' = FlowResult("flowSet", f, "CONTEXT_USE_RUN_METHOD", c)
  /\ UNCHANGED <<phase, initializer, state, changeLog, initialState, own, heap, adapter, frames, flows, ops, registry, thrown>>

\* Context.reset() inside fn
Flow_reset(f) ==
  /\ flows[f].running
  /\ IF adapter = "global"
     THEN ctx' = "none" /\ res' = FlowResult("flowReset", f, "ok", UNDEF)
     ELSE ctx' = ctx /\ res' = FlowResult("flowReset", f, "CONTEXT_AUTO_RESET", UNDEF)
  /\ UNCHANGED <<phase, initializer, state, changeLog, initialState, own, heap, adapter, frames, flows, ops, registry, thrown>>

\* fn schedules an asynchronous task; the task inherits the store of its creator
Flow_schedule(f) ==
  /\ flows[f].running
  /\ Len(flows[f].tasks) < MaxTasks
  /\ flows' = [flows EXCEPT ![f].tasks = Append(@, flows[f].store)]
  /\ res' = FlowResult("flowSchedule", f, "ok", UNDEF)
  /\ UNCHANGED <<phase, initializer, state, changeLog, initialState, own, heap, ctx, adapter, frames, ops, registry, thrown>>

\* a scheduled task runs, possibly after fn returned, and evaluates Context.get()
Flow_task(f) ==
  /\ flows[f].tasks # <<>>
  /\ res' = FlowResult("taskGet", f, "ok", Adapter_get(adapter, ctx, Head(flows[f].tasks)))
  /\ flows' = [flows EXCEPT ![f].tasks = Tail(@)]
  /\ UNCHANGED <<phase, initializer, state, changeLog, initialState, own, heap, ctx, adapter, frames, ops, registry, thrown>>

\* fn returns or throws: Context.run ends
Flow_exit(f) ==
  /\ flows[f].running
  /\ flows' = [flows EXCEPT ![f].running = FALSE, ![f].store = "none"]
  /\ ctx' = IF adapter = "global" THEN "none" ELSE ctx
  /\ res' = FlowResult("flowExit", f, "ok", UNDEF)
  /\ UNCHANGED <<phase, initializer, state, changeLog, initialState, own, heap, adapter, frames, ops, registry, thrown>>

NextFlows ==
  \/ UseGlobalStorage
  \/ UseAsyncLocalStorage
  \/ \E f \in FlowIds, c \in RunContexts : Flow_run(f, c)
  \/ \E f \in FlowIds : Flow_get(f)
  \/ \E f \in FlowIds, c \in RunContexts : Flow_set(f, c)
  \/ \E f \in FlowIds : Flow_reset(f)
  \/ \E f \in FlowIds : Flow_schedule(f)
  \/ \E f \in FlowIds : Flow_task(f)
  \/ \E f \in FlowIds : Flow_exit(f)

SpecFlows == Init /\ [][NextFlows]_vars

\* ------------------------------------------------------------------ errors
MaxErrors == 2

\* messages an application may register for a code
OverrideMessages == {<<"Access", "denied">>, <<"FIELD_NOT_WRITABLE", ":", "denied">>}
\* <<>>: no message for the code (an absent key and an empty string are both falsy)
Overrides == [ErrorCodes -> OverrideMessages \cup {<<>>}]

\* ErrorRegistry.getMessage
ErrorRegistry_getMessage(reg, code) ==
  IF reg.customErrorMessages[code] # <<>> THEN reg.customErrorMessages[code] ELSE errorMessages[code]

\* VerveError.getMessageWithCode
VerveError_getMessageWithCode(reg, code) ==
  IF reg.hiddenCodes
  THEN ErrorRegistry_getMessage(reg, code)
  ELSE <<code, ":">> \o ErrorRegistry_getMessage(reg, code)

\* error.is(code): this.message.startsWith(`${code}:`)
VerveError_is(error, code) ==
  /\ Len(error.message) >= 2
  /\ error.message[1] = code
  /\ error.message[2] = ":"

\* ErrorRegistry.register(overrides): the overrides over the default messages
ErrorRegistry_register(overrides) ==
  /\ \E c \in ErrorCodes : overrides[c] # <<>>
  /\ registry' = [registry EXCEPT !.customErrorMessages =
                    [c \in ErrorCodes |-> IF overrides[c] # <<>> THEN overrides[c] ELSE errorMessages[c]]]
  /\ res' = Result("register", UNDEF, UNDEF, "ok", UNDEF)
  /\ UNCHANGED <<phase, initializer, state, changeLog, initialState, own, heap, ctx, adapter, frames, flows, thrown, ops>>

\* ErrorRegistry.hideCodes()
ErrorRegistry_hideCodes ==
  /\ ~registry.hiddenCodes
  /\ registry' = [registry EXCEPT !.hiddenCodes = TRUE]
  /\ res' = Result("hideCodes", UNDEF, UNDEF, "ok", UNDEF)
  /\ UNCHANGED <<phase, initializer, state, changeLog, initialState, own, heap, ctx, adapter, frames, flows, thrown, ops>>

\* new VerveError(code): the message is rendered once, at construction
VerveError_new(code) ==
  /\ Len(thrown) < MaxErrors
  /\ thrown' = Append(thrown, [code |-> code, message |-> VerveError_getMessageWithCode(registry, code)])
  /\ res' = Result("error", UNDEF, code, "ok", UNDEF)
  /\ UNCHANGED <<phase, initializer, state, changeLog, initialState, own, heap, ctx, adapter, frames, flows, registry, ops>>

NextErrors ==
  \/ \E overrides \in Overrides : ErrorRegistry_register(overrides)
  \/ ErrorRegistry_hideCodes
  \/ \E code \in ErrorCodes : VerveError_new(code)

SpecErrors == Init /\ [][NextErrors]_vars

\* ------------------------------------------------------------------ field builder validators
MaxChain == 2

\* a validator function, eager or marked __lazy
Validator(name, lazy) == [name |-> name, lazy |-> lazy]

\* TextField.setGlobalValidators(...) before the schema is declared
GlobalValidators == {<<>>, <<Validator("isEmail", FALSE)>>}

\* the validate calls of a builder chain
ValidateCalls ==
  [op : {"validate", "add", "only", "lazy", "lazyAdd", "lazyOnly"}, validators : {<<"isTest">>, <<"isShort">>}]
    \cup {[op |-> "none", validators |-> <<>>]}

Lazy(names, lazy) == [i \in DOMAIN names |-> Validator(names[i], lazy)]

\* mergeFieldValidators: the global validators of the field class, then the given ones
mergeFieldValidators(globals, validators) == globals \o validators

\* one call on builder.validate: the new value of options.validators
WithValidate(globals, call) ==
  CASE call.op \in {"validate", "add"} -> mergeFieldValidators(globals, Lazy(call.validators, FALSE))
    [] call.op = "only" -> Lazy(call.validators, FALSE)
    [] call.op = "none" -> <<>>
    [] call.op \in {"lazy", "lazyAdd"} -> mergeFieldValidators(globals, Lazy(call.validators, TRUE))
    [] OTHER -> Lazy(call.validators, TRUE)

\* bindValidators: an option that was never set defaults to no validators
bindValidators(chain, globals) ==
  IF chain = <<>> THEN <<>> ELSE WithValidate(globals, chain[Len(chain)])

\* text()...toField() with the given validate calls, after the global validators were set
FieldBuilder_toField(globals, chain) ==
  /\ phase = "none"
  /\ res' = [ResultData("toField", UNDEF, <<globals, chain>>, "ok") EXCEPT !.errs = bindValidators(chain, globals)]
  /\ phase' = "live"
  /\ UNCHANGED <<initializer, state, changeLog, initialState, own, heap, ctx, adapter, frames, flows, registry, thrown, ops>>

Chains == UNION {[1..n -> ValidateCalls] : n \in 0..MaxChain}

NextBuilder ==
  \E globals \in GlobalValidators, chain \in Chains : FieldBuilder_toField(globals, chain)

SpecBuilder == Init /\ [][NextBuilder]_vars

\* ------------------------------------------------------------------ properties
Changes == Model_getChanges(changeLog, initialState)

EntriesOf(log, f) == SelectSeq(log, LAMBDA e : e.field = f)

KeySet(keys) == {keys[i] : i \in DOMAIN keys}

DataFields(entries) == {entries[i][1] : i \in DOMAIN entries}

\* the schema's rules spelled out per context
ReadDenied(f, c) ==
  \/ Schema[f].readable = "false"
  \/ Schema[f].readable = "admin" /\ c # "admin"

WriteDenied(f, c, ini) ==
  \/ Schema[f].writable = "false"
  \/ Schema[f].writable = "admin" /\ c # "admin"
  \/ Schema[f].writable = "isNew" /\ ini # "make"

SomeValidatorFails(f, v) ==
  \E i \in DOMAIN Schema[f].validators : ~ValidatorResult(Schema[f].validators[i].name, v)

NullEntries(entries) ==
  {entries[i][1] : i \in {j \in DOMAIN entries : entries[j][2] = NULL /\ ~Schema[entries[j][1]].nullable}}

C2_HiddenFieldNeverEnumerable ==
  phase = "live" =>
    \A f \in Fields : Schema[f].readable = "false" => ~(own[f].present /\ own[f].enumerable)

NotSeeded(r, f) ==
  /\ f \notin DataFields(r.data)
  /\ Schema[f].default = UNDEF
  /\ ~(r.op = "make" /\ Schema[f].generator = "eager")

C7_UnsetErases ==
  [][ res'.op = "unset" =>
        /\ res'.err = "ok"
        /\ \A f \in KeySet(res'.data) :
             /\ state'[f] = UNDEF
             /\ EntriesOf(changeLog', f) = <<>>
             /\ Changes'[f] = UNDEF
        /\ changeLog' = SelectSeq(changeLog, LAMBDA e : e.field \notin KeySet(res'.data))
        /\ \A f \in Fields \ KeySet(res'.data) : state'[f] = state[f]
    ]_vars

C7_Witness ==
  /\ res.op = "unset" /\ res.f = "name" /\ res.before = "Joe"
  /\ initializer = "make"
  /\ changeLog # <<>>
  /\ state["name"] = UNDEF

\* C8: except(keys) fails with IdFieldCannotBeExcluded whenever keys names
\* an ID field, only(keys) never fails, and after either call every ID
\* field holds the value (and the log entries) it had before.
C8_IdProtected ==
  [][ /\ res'.op = "except" =>
           (res'.err = (IF \E f \in KeySet(res'.data) : Schema[f].kind = "IdField"
                        THEN "ID_FIELD_CANNOT_BE_EXCLUDED" ELSE "ok"))
      /\ res'.op = "only" => res'.err = "ok"
      /\ res'.op \in {"only", "except"} =>
           \A f \in Fields : Schema[f].kind = "IdField" =>
             /\ state'[f] = state[f]
             /\ EntriesOf(changeLog', f) = EntriesOf(changeLog, f)
    ]_vars

C8_Witness ==
  /\ res.op = "only" /\ res.data = <<"name">>
  /\ initializer = "make"
  /\ state["id"] = "sid"
  /\ state["role"] = UNDEF

\* C9: on a hydrated instance, a mutating array method called through the
\* instance's list field, or a property assigned in place on its record
\* field, succeeds and makes getChanges() report the field with the whole
\* container in its final mutated state.
C9_InPlaceMutationReported ==
  [][ /\ ( /\ res'.op \in {"push", "pop", "shift", "unshift", "splice", "sort",
                           "reverse", "fill", "copyWithin"}
           /\ initializer = "from"
           /\ IsRef(state[res'.f])
           /\ heap[state[res'.f]].kind = "list" )
         => /\ res'.err = "ok"
            /\ state'[res'.f] = state[res'.f]
            /\ Changes'[res'.f] = state[res'.f]
            /\ heap'[state[res'.f]].items =
                 ArrayApply(res'.op, heap[state[res'.f]].items, res'.arg)
      /\ ( /\ res'.op = "assignIn"
           /\ initializer = "from"
           /\ IsRef(state[res'.f])
           /\ heap[state[res'.f]].kind = "record" )
         => /\ res'.err = "ok"
            /\ state'[res'.f] = state[res'.f]
            /\ Changes'[res'.f] = state[res'.f]
            /\ heap'[state[res'.f]].props =
                 [heap[state[res'.f]].props EXCEPT ![res'.data[1]] = res'.data[2]]
    ]_vars

C9_Witness ==
  /\ res.op = "push" /\ res.f = "groups" /\ res.err = "ok"
  /\ initializer = "from"
  /\ IsRef(state["groups"])
  /\ heap[state["groups"]].items = <<"g1", "g2", "g3">>
  /\ Changes["groups"] = state["groups"]

\* the object instance.f[step] addresses
Addressed(h, root, step) ==
  IF step \in PropKeys THEN h[root].props[step] ELSE h[root].items[1]

\* C10: an in-place assignment one level down a list or record field
\* (instance.settings.a.b = v, instance.items[0].x = v) changes exactly the
\* addressed inner value and is re-committed as a set of the owning field,
\* so the deep change shows up in getChanges().
C10_DeepMutationExact ==
  [][ (res'.op = "assignDeep" /\ res'.err = "ok") =>
        /\ heap'[Addressed(heap, state[res'.f], res'.data[1])].props[res'.data[2]] = res'.data[3]
        /\ heap'[state[res'.f]] = heap[state[res'.f]]
        /\ Changes'[res'.f] = state[res'.f]
    ]_vars

\* C11: $f.generate() fails with NoGenerator when f has no generator, with
\* AlreadyGenerated when f holds any value other than undefined (on a
\* hydrated instance CannotGenerateExisting is accepted as well), with
\* CannotGenerateExisting when f is uninitialized on a hydrated instance;
\* every failing call leaves state and change log unchanged, and otherwise
\* the generator's result is committed through set.
C11_GenerateGuards ==
  [][ res'.op = "generate" =>
        /\ res'.err # "ok" => (state' = state /\ changeLog' = changeLog)
        /\ IF Schema[res'.f].generator = "none" THEN res'.err = "FIELD_NO_GENERATOR"
           ELSE IF state[res'.f] # UNDEF
                THEN /\ res'.err \in {"FIELD_ALREADY_GENERATED"}
                               \cup (IF initializer = "from"
                                     THEN {"FIELD_CANNOT_GENERATE_EXISTING"} ELSE {})
                     /\ state'[res'.f] = state[res'.f]
           ELSE IF initializer = "from" THEN res'.err = "FIELD_CANNOT_GENERATE_EXISTING"
           ELSE res'.err = "ok" => state'[res'.f] = res'.arg
    ]_vars

\* the failing (field, validator) pairs among the given keys
FailingPairs(s, keys) ==
  {<<f, i>> \in UNION {{f} \X DOMAIN Schema[f].validators : f \in Fields} :
     /\ keys = AllKeys \/ f \in KeySet(keys)
     /\ s[f] # UNDEF
     /\ ~ValidatorResult(Schema[f].validators[i].name, s[f])}

C12_SeedingPriority ==
  res.op = "seed" =>
    LET value == res.data[1]
        default == res.data[2]
        generator == res.data[3]
        mode == res.data[4]
    IN res.val = (IF value # UNDEF THEN value
                  ELSE IF mode = "from" THEN UNDEF
                  ELSE IF default # UNDEF THEN default
                  ELSE IF generator = "eager" THEN res.arg
                  ELSE UNDEF)

\* the value construction seeds for f, given the call recorded in r
SeededValue(r, f) ==
  IF Schema[f].compute THEN UNDEF
  ELSE IF \E i \in DOMAIN r.data : r.data[i][1] = f
       THEN (CHOOSE e \in {r.data[i] : i \in DOMAIN r.data} : e[1] = f)[2]
  ELSE IF r.op = "from" THEN UNDEF
  ELSE IF Schema[f].default # UNDEF THEN Schema[f].default
  ELSE IF Schema[f].generator = "eager" THEN r.arg
  ELSE UNDEF

\* the violations of nullability and of eager validators among the seeded values
SeedViolations(r) ==
  {Err("FIELD_NOT_NULLABLE", f, UNDEF) :
     f \in {g \in Fields : SeededValue(r, g) = NULL /\ ~Schema[g].nullable}}
  \cup
  {Err("FIELD_VALIDATOR_FAILED", p[1], Schema[p[1]].validators[p[2]].name) :
     p \in {q \in UNION {{f} \X DOMAIN Schema[f].validators : f \in Fields} :
              /\ SeededValue(r, q[1]) # UNDEF
              /\ ~Schema[q[1]].validators[q[2]].lazy
              /\ ~ValidatorResult(Schema[q[1]].validators[q[2]].name, SeededValue(r, q[1]))}}

Inconsistent(r) == {i \in DOMAIN r.data : r.data[i].target # r.arg}

\* C15 (as stated): construction of an owner whose association field
\* holds embedded objects fails with AssociationValidatorNotFound when no
\* validator is registered, fails with an association-invalid error when
\* one is registered and some embedded value's target path differs from
\* the owner's source path, and accepts consistent values.
C15_AssociationChecked ==
  (res.op = "associate" /\ \A i \in DOMAIN res.data : res.data[i].kind = "object") =>
    IF res.val = "missing"
    THEN /\ res.err = "MODEL_FIELD_VALIDATION_FAILED"
         /\ \E j \in DOMAIN res.errs : res.errs[j].code = "ASSOCIATION_VALIDATOR_NOT_FOUND"
    ELSE IF Inconsistent(res) # {}
    THEN /\ res.err = "MODEL_FIELD_VALIDATION_FAILED"
         /\ \E j \in DOMAIN res.errs : res.errs[j].code = "ASSOCIATION_INVALID"
    ELSE res.err = "ok"

\* C15 (amended): as above, but only loaded embedded values (an id and at
\* least one other key) are compared: construction fails with one
\* association-invalid error per loaded value whose target path differs
\* from the owner's source path, and values that are not loaded are
\* accepted unchecked.
C15_LoadedAssociationChecked ==
  (res.op = "associate" /\ \A i \in DOMAIN res.data : res.data[i].kind = "object") =>
    IF res.val = "missing"
    THEN /\ res.err = "MODEL_FIELD_VALIDATION_FAILED"
         /\ res.errs = <<Err("ASSOCIATION_VALIDATOR_NOT_FOUND", "posts", UNDEF)>>
    ELSE LET bad == {i \in Inconsistent(res) : res.data[i].id # UNDEF /\ res.data[i].extra}
         IN /\ res.err = (IF bad # {} THEN "MODEL_FIELD_VALIDATION_FAILED" ELSE "ok")
            /\ Len(res.errs) = Cardinality(bad)
            /\ \A j \in DOMAIN res.errs : res.errs[j].code = "ASSOCIATION_INVALID"

C15_Witness ==
  /\ res.op = "associate" /\ res.val = "registered" /\ res.arg = "1"
  /\ res.data = <<AssocObject("p1", TRUE, "1"), AssocObject("p1", TRUE, "2")>>
  /\ res.err = "MODEL_FIELD_VALIDATION_FAILED"
  /\ Len(res.errs) = 1

RECURSIVE SameValue(_, _, _, _)
\* equality of two values by content: atoms by identity, lists and records
\* element by element
SameValue(a, b, h, depth) ==
  IF ~(a \in AllRefs /\ b \in AllRefs) THEN a = b
  ELSE /\ depth > 0
       /\ h[a].kind = h[b].kind
       /\ Len(h[a].items) = Len(h[b].items)
       /\ \A i \in DOMAIN h[a].items : SameValue(h[a].items[i], h[b].items[i], h, depth - 1)
       /\ \A k \in PropKeys : SameValue(h[a].props[k], h[b].props[k], h, depth - 1)

\* C16: on a hydrated instance getChanges() maps each field that has
\* change-log entries to the currentValue of its most recent entry, and
\* omits every field whose most recent value equals the value recorded in
\* initialState, for text, list and record fields alike.
C16_ChangesOmitBaseline ==
  (phase = "live" /\ initializer = "from") =>
    \A f \in Fields :
      IF EntriesOf(changeLog, f) = <<>> THEN Changes[f] = UNDEF
      ELSE LET last == EntriesOf(changeLog, f)[Len(EntriesOf(changeLog, f))].currentValue
           IN Changes[f] = (IF SameValue(last, initialState[f], heap, 3) THEN UNDEF ELSE last)

ResolvedContext(r) ==
  IF r.data[1] # UNDEF THEN r.data[1] ELSE IF r.data[2] # UNDEF THEN r.data[2] ELSE r.data[3]

C19_UnauthorizedNeverRuns ==
  ( /\ res.op = "call"
    /\ CanCondition(res.f, UNDEF, res.arg) # "none"
    /\ \/ ResolvedContext(res) = UNDEF
       \/ CanCondition(res.f, ResolvedContext(res), res.arg) # "true" )
  => (res.err = "UNAUTHORIZED_METHOD_CALL" /\ res.val = UNDEF)

\* C20: for each context adapter (global and scoped), after
\* Context.run(c, fn) completes, whether fn returns or throws,
\* Context.get() returns the context that was current immediately before
\* the call, and when fn starts Context.get() returns c.
C20_RunRestoresPrevious ==
  /\ res.op = "runExit" => ctx = res.before
  /\ res.op = "runEnter" => ctx = res.arg

\* C21: with the scoped adapter, when two flows started by Context.run
\* overlap, every Context.get() evaluated inside a flow or in a task it
\* scheduled returns that flow's context under every interleaving, and
\* no step of one flow (Context.set and Context.reset included, which
\* fail) changes what the other flow observes.
C21_FlowsIsolated ==
  [][ (adapter = "scoped" /\ res'.op \in {"flowRun", "flowGet", "flowSet", "flowReset",
                                          "flowSchedule", "taskGet", "flowExit"})
      => /\ res'.op \in {"flowGet", "taskGet"} => res'.val = flows[res'.arg].context
         /\ res'.op \in {"flowSet", "flowReset"} => res'.err # "ok"
         /\ \A g \in FlowIds \ {res'.arg} :
              /\ flows'[g] = flows[g]
              /\ Adapter_get(adapter', ctx', flows'[g].store) = Adapter_get(adapter, ctx, flows[g].store) ]_vars

C21_Witness ==
  /\ adapter = "scoped"
  /\ flows["f1"].running /\ flows["f2"].running
  /\ flows["f1"].context = "admin" /\ flows["f2"].context = "user"
  /\ res.op = "taskGet" /\ res.arg = "f1" /\ res.val = "admin"

\* C22: hiding error codes affects only the rendered message, never
\* identification: for every error created with code C, error.is(C) is
\* true and error.is(C') is false for every other code C', whether the
\* error was created before or after hideCodes() and whatever message
\* overrides are registered.
C22_IdentificationSurvivesHiding ==
  \A i \in 1..Len(thrown) : \A c \in ErrorCodes :
    VerveError_is(thrown[i], c) <=> (thrown[i].code = c)

\* C23: the boolean and list forms of validation agree: for a field with
\* a defined value $f.isValid() is true iff $f.validate() is empty; for
\* every set K of schema fields hasValid(K) is true iff validate(K) is
\* empty; and isValid() is the case where K is all schema fields,
\* readable or not.
C23_ValidationFormsAgree ==
  /\ (res.op = "fieldIsValid" /\ state[res.f] # UNDEF)
       => (res.val = "true" <=> Field_validate(Cur, res.f) = <<>>)
  /\ res.op = "hasValid"
       => (res.val = "true" <=> Model_validate(Cur, res.data, 1) = <<>>)
  /\ res.op = "isValid"
       => (res.val = "true" <=> Model_validate(Cur, AllKeys, 1) = <<>>)

Elems(seq) == {seq[i] : i \in DOMAIN seq}

\* C24: validators registered globally for a field kind before a schema
\* is declared are run for every field of that kind, including fields
\* declared without any per-field validate call; only fields that opt
\* out with validate.only or validate.none are exempt, and a per-field
\* validate(...) adds to the global ones.
C24_GlobalValidatorsEverywhere ==
  res.op = "toField" =>
    LET globals == res.data[1]
        chain == res.data[2]
        optedOut == \E i \in DOMAIN chain : chain[i].op \in {"only", "none", "lazyOnly"}
    IN /\ ~optedOut => Elems(globals) \subseteq Elems(res.errs)
       /\ (chain # <<>> /\ chain[Len(chain)].op = "validate") =>
            Elems(globals) \cup Elems(Lazy(chain[Len(chain)].validators, FALSE)) \subseteq Elems(res.errs)

\* C25: setting a value whose runtime type does not match the field's
\* kind (a number on a text field, an array on a record field, a plain
\* object on a list field) fails, and the field's stored value and the
\* change log are left unchanged.
C25_TypeMismatchRejected ==
  [][ /\ ( /\ res'.op = "boundSet"
           /\ res'.arg \notin {NULL, UNDEF}
           /\ ~DEFAULT_FIELD_TYPES(Schema[res'.f].kind, res'.arg, heap') )
        => (res'.err # "ok" /\ state' = state /\ changeLog' = changeLog)
      /\ ( /\ res'.op = "set"
           /\ res'.data[1][2] \notin {NULL, UNDEF}
           /\ ~DEFAULT_FIELD_TYPES(Schema[res'.data[1][1]].kind, res'.data[1][2], heap') )
        => (res'.err # "ok" /\ state' = state /\ changeLog' = changeLog) ]_vars

\* C26: for an instance created with make, after any sequence of
\* operations, getChanges() equals the instance's current state: every
\* initialized field (readable or not) appears with its current stored
\* value and no other key appears.
C26_MakeChangesEqualState ==
  (phase = "live" /\ initializer = "make") =>
    \A f \in Fields : Model_getChanges(changeLog, initialState)[f] = state[f]

C26_Witness ==
  /\ phase = "live" /\ initializer = "make"
  /\ res.op \in {"set", "unset", "assign"}
  /\ res.err = "ok"
  /\ state["password"] # UNDEF
  /\ Len(changeLog) >= 3

\* the calls that mutate an instance
MutatingOps ==
  {"assign", "boundSet", "set", "unset", "only", "except", "generate", "generateAll",
   "assignIn", "assignDeep"} \cup ArrayMethods

\* C27: failure atomicity: whenever a mutating call on an instance throws
\* (property assignment, BoundField.set, Model.set with several keys,
\* unset, only, except, generate, or an in-place mutation through a
\* nested proxy) the instance's state and change log are exactly what
\* they were before the call.
C27_FailureAtomicity ==
  [][ (res'.op \in MutatingOps /\ res'.err # "ok")
        => (state' = state /\ changeLog' = changeLog) ]_vars

\* C28: write protection is complete: while a field is computed or its
\* write rule denies in the current context, no public call (property
\* assignment, Model.set, BoundField.set, unset, only, except, in-place
\* mutation through a nested proxy) changes or removes the field's
\* stored value.
C28_WriteProtectionComplete ==
  [][ res'.op \in MutatingOps =>
        \A f \in Fields :
          (Schema[f].compute \/ WriteDenied(f, ctx, initializer)) => state'[f] = state[f] ]_vars

\* C29: instances are isolated from each other: no operation on one
\* instance, an in-place mutation of a list or record value obtained
\* through its property included, changes the values later instances
\* receive from the schema's declared defaults.
C29_DefaultsNeverChange ==
  \A d \in DefRefs : heap[d] = InitHeap[d]

\* the calls that only read
ReadOps == {"read", "get", "unsafeGet", "fieldIsValid", "isValid", "hasValid", "validate"}

\* C30: reads do not count as changes: for an instance hydrated with
\* from, getChanges() stays {} and the change log stays empty for as
\* long as the caller only reads (property reads of any schema field,
\* computed fields included, BoundField.get, unsafeGet, isValid,
\* validate).
C30_ReadsLeaveNoTrace ==
  [][ (phase = "live" /\ initializer = "from" /\ changeLog = <<>> /\ res'.op \in ReadOps)
        => /\ changeLog' = <<>>
           /\ \A f \in Fields : Model_getChanges(changeLog', initialState')[f] = UNDEF ]_vars

====
